---------------------------- MODULE Spec2Model ----------------------------
(***************************************************************************)
(* Entity factories of the selenium test library                          *)
(* (test/selenium/src/lib/entities/entities_factory.py).                  *)
(*                                                                         *)
(* Python values are records [k, n, s]: k is the Python type, n the number *)
(* of an int or bool, s the characters of a str (one-character strings) or *)
(* the items of a list.  Entities live on a heap: an entity is the function *)
(* from its attribute names to their values, its address is its index in   *)
(* heap, and "the same instance" means the same address.                   *)
(***************************************************************************)
EXTENDS Integers, Sequences, FiniteSets, TLC

VARIABLES heap, uuids, issued, last

vars == <<heap, uuids, issued, last>>

-----------------------------------------------------------------------------
(* Bounds of the model. *)

\* Entities one run may hold.
MaxHeap == 4

\* Largest total the count service answers with.
MaxTotal == 2

-----------------------------------------------------------------------------
(* Python values. *)

None == [k |-> "none", n |-> 0, s |-> <<>>]

PyInt(i) == [k |-> "int", n |-> i, s |-> <<>>]

PyStr(chars) == [k |-> "str", n |-> 0, s |-> chars]

PyBool(b) == [k |-> "bool", n |-> IF b THEN 1 ELSE 0, s |-> <<>>]

PyList(items) == [k |-> "list", n |-> 0, s |-> items]

\* Python's truth value of an object: None, 0, False, "" and [] are falsy.
Truthy(v) ==
  CASE v.k = "none" -> FALSE
    [] v.k = "int"  -> v.n # 0
    [] v.k = "bool" -> v.n = 1
    [] OTHER        -> Len(v.s) > 0

IsStr(v) == v.k = "str"

Digits == <<"0", "1", "2", "3", "4", "5", "6", "7", "8", "9">>

IsDigit(c) == \E i \in 1..10 : Digits[i] = c

\* str(n) of a Python int.
RECURSIVE NatStr(_)
NatStr(n) ==
  IF n < 10 THEN <<Digits[n + 1]>>
  ELSE NatStr(n \div 10) \o <<Digits[(n % 10) + 1]>>

IntStr(n) == IF n < 0 THEN <<"-">> \o NatStr(0 - n) ELSE NatStr(n)

LowerCase == <<"a", "b", "c", "d", "e", "f", "g", "h", "i", "j", "k", "l", "m", "n", "o", "p", "q", "r", "s", "t", "u", "v", "w", "x", "y", "z">>

UpperCase == <<"A", "B", "C", "D", "E", "F", "G", "H", "I", "J", "K", "L", "M", "N", "O", "P", "Q", "R", "S", "T", "U", "V", "W", "X", "Y", "Z">>

UpperChar(c) ==
  IF \E i \in 1..26 : LowerCase[i] = c
  THEN UpperCase[CHOOSE i \in 1..26 : LowerCase[i] = c]
  ELSE c

LowerChar(c) ==
  IF \E i \in 1..26 : UpperCase[i] = c
  THEN LowerCase[CHOOSE i \in 1..26 : UpperCase[i] = c]
  ELSE c

IsAlpha(c) == \E i \in 1..26 : LowerCase[i] = c \/ UpperCase[i] = c

\* str.upper()
Upper(chars) == [i \in 1..Len(chars) |-> UpperChar(chars[i])]

\* str.title(): a letter that follows a non-letter is upper-cased, every
\* other letter lower-cased.
Title(chars) ==
  [i \in 1..Len(chars) |->
     IF i = 1 \/ ~IsAlpha(chars[i - 1]) THEN UpperChar(chars[i])
     ELSE LowerChar(chars[i])]

\* str.replace("_", by)
RECURSIVE ReplaceUnderscore(_, _)
ReplaceUnderscore(chars, by) ==
  IF chars = <<>> THEN <<>>
  ELSE (IF Head(chars) = "_" THEN by ELSE <<Head(chars)>>)
       \o ReplaceUnderscore(Tail(chars), by)

\* Where the match of the pattern "\d+$" ends in chars (0: no match).  "$"
\* matches at the end of the string and before a newline that ends it.
MatchEnd(chars) ==
  LET len == Len(chars) IN
  IF len >= 1 /\ IsDigit(chars[len]) THEN len
  ELSE IF len >= 2 /\ chars[len] = "\n" /\ IsDigit(chars[len - 1]) THEN len - 1
  ELSE 0

\* Where that match starts: the first digit of the run of digits ending at e.
RECURSIVE MatchStart(_, _)
MatchStart(chars, e) ==
  IF e >= 2 /\ IsDigit(chars[e - 1]) THEN MatchStart(chars, e - 1) ELSE e

\* re.sub("\d$", repl, chars): only the last digit replaced.
ReSubLastDigit(repl, chars) ==
  LET e == MatchEnd(chars) IN
  IF e = 0 THEN chars
  ELSE SubSeq(chars, 1, e - 1) \o repl \o SubSeq(chars, e + 1, Len(chars))

\* re.sub("\d+$", repl, chars): the one match, if any, replaced by repl.
ReSubTrailingDigits(repl, chars) ==
  LET e == MatchEnd(chars) IN
  IF e = 0 THEN chars
  ELSE SubSeq(chars, 1, MatchStart(chars, e) - 1) \o repl
       \o SubSeq(chars, e + 1, Len(chars))

-----------------------------------------------------------------------------
(* Constants of the test library the factories read (lib.constants). *)

_obj_person == <<"p", "e", "r", "s", "o", "n">>

_obj_program == <<"p", "r", "o", "g", "r", "a", "m">>

_obj_control == <<"c", "o", "n", "t", "r", "o", "l">>

_obj_audit == <<"a", "u", "d", "i", "t">>

_obj_asmt_tmpl == <<"a", "s", "s", "e", "s", "s", "m", "e", "n", "t", "_", "t", "e", "m", "p", "l", "a", "t", "e">>

_obj_asmt == <<"a", "s", "s", "e", "s", "s", "m", "e", "n", "t">>

_obj_issue == <<"i", "s", "s", "u", "e">>

\* roles.DEFAULT_USER, roles.NO_ROLE, roles.SUPERUSER, roles.OBJECT_OWNERS
DEFAULT_USER == <<"E", "x", "a", "m", "p", "l", "e", " ", "U", "s", "e", "r">>

NO_ROLE == <<"N", "o", " ", "r", "o", "l", "e">>

SUPERUSER == <<"S", "u", "p", "e", "r", "u", "s", "e", "r">>

OBJECT_OWNERS == <<"O", "b", "j", "e", "c", "t", " ", "O", "w", "n", "e", "r", "s">>

\* const_url.DEFAULT_EMAIL_DOMAIN, DEFAULT_USER_EMAIL, DEFAULT_USER_HREF
DEFAULT_EMAIL_DOMAIN == <<"e", "x", "a", "m", "p", "l", "e", ".", "c", "o", "m">>

DEFAULT_USER_EMAIL == <<"u", "s", "e", "r", "@", "e", "x", "a", "m", "p", "l", "e", ".", "c", "o", "m">>

DEFAULT_USER_HREF == <<"/", "a", "p", "i", "/", "p", "e", "o", "p", "l", "e", "/", "1">>

\* element.ObjectStates.DRAFT and IssueStates.DRAFT, AuditStates().PLANNED,
\* AssessmentStates.NOT_STARTED, Common.FALSE
DRAFT == <<"D", "r", "a", "f", "t">>

PLANNED == <<"P", "l", "a", "n", "n", "e", "d">>

NOT_STARTED == <<"N", "o", "t", " ", "S", "t", "a", "r", "t", "e", "d">>

FALSE_STR == <<"f", "a", "l", "s", "e">>

\* objects.CONTROLS
CONTROLS == <<"c", "o", "n", "t", "r", "o", "l", "s">>

\* element.AdminWidgetCustomAttrs
TEXT == <<"T", "e", "x", "t">>

RICH_TEXT == <<"R", "i", "c", "h", " ", "T", "e", "x", "t">>

DATE == <<"D", "a", "t", "e">>

CHECKBOX == <<"C", "h", "e", "c", "k", "b", "o", "x">>

DROPDOWN == <<"D", "r", "o", "p", "d", "o", "w", "n">>

PERSON == <<"M", "a", "p", ":", "P", "e", "r", "s", "o", "n">>

ALL_ATTRS_TYPES == {TEXT, RICH_TEXT, DATE, CHECKBOX, DROPDOWN, PERSON}

\* objects.ALL_CA_OBJECTS: the plural names of the objects that take custom
\* attributes (two of them).
ALL_CA_OBJECTS == {CONTROLS, <<"o", "r", "g", "_", "g", "r", "o", "u", "p", "s">>}

\* string_utils.SPECIAL, the alphabet of special characters.
SPECIAL == <<"!">>

\* objects.get_normal_form(obj_name): the title form of a name, its
\* underscores turned into spaces.
get_normal_form(obj_name) == Title(ReplaceUnderscore(obj_name, <<" ">>))

\* string_utils.random_uuid(): a token no other call returns; u counts the
\* calls made so far.
random_uuid(u) == <<"u">> \o NatStr(u)

\* string_utils.random_string(size, chars): size characters drawn from chars.
random_string(size, chars) == [i \in 1..size |-> chars[1]]

\* string_utils.random_list_strings(list_len): list_len random strings.
random_list_strings(list_len) == [i \in 1..list_len |-> "rnd" \o Digits[i + 1]]

-----------------------------------------------------------------------------
(* Entities (lib.entities.entity): an attribute bag per domain type, every *)
(* attribute None until a factory fills it.                                *)

BaseAttrs == {"title", "id", "href", "url", "type"}

PersonAttrs == BaseAttrs \cup {"email", "authorizations"}

CAAttrs == BaseAttrs \cup {"ca_type", "definition_type", "helptext", "placeholder", "multi_choice_options", "is_mandatory", "ca_global"}

ProgramAttrs == BaseAttrs \cup {"manager", "primary_contact", "code", "state", "last_update"}

ControlAttrs == BaseAttrs \cup {"owner", "primary_contact", "code", "state", "last_update"}

AuditAttrs == BaseAttrs \cup {"program", "audit_lead", "code", "status", "last_update"}

AsmtTmplAttrs == BaseAttrs \cup {"audit", "asmt_objects", "def_assessors", "def_verifiers", "code", "last_update"}

AsmtAttrs == BaseAttrs \cup {"object", "audit", "creators", "assignees", "primary_contact", "is_verified", "code", "state", "last_update"}

IssueAttrs == BaseAttrs \cup {"audit", "owner", "primary_contact", "code", "state", "last_update"}

\* The entity a constructor returns.
Entity(attrs) == [a \in attrs |-> None]

\* A call's result: the heap after it and what it returns (an address).
Result(h, ret) == [heap |-> h, ret |-> ret]

\* A new object on the heap.
New(h, obj) == Result(Append(h, obj), Len(h) + 1)

\* entity.Entity().attrs_names_all_entities()
all_objs_attrs_names == PersonAttrs \cup CAAttrs \cup ProgramAttrs \cup ControlAttrs \cup AuditAttrs \cup AsmtTmplAttrs \cup AsmtAttrs \cup IssueAttrs

-----------------------------------------------------------------------------
(* EntitiesFactory *)

\* The attributes update_obj_attrs_values sets: those of attrs_names that the
\* arguments give a truthy value.
Applied(attrs_names, arguments) ==
  {a \in attrs_names \cap DOMAIN arguments : Truthy(arguments[a])}

\* update_obj_attrs_values testing "is not None" instead of the truth value.
update_obj_attrs_values_NotNone(h, obj, attrs_names, arguments) ==
  LET applied == {a \in attrs_names \cap DOMAIN arguments : arguments[a] # None}
      old == h[obj]
      new == [a \in DOMAIN old \cup applied |->
                IF a \in applied THEN arguments[a] ELSE old[a]]
  IN  [heap |-> [h EXCEPT ![obj] = new], ret |-> obj]

\* update_obj_attrs_values(obj, attrs_names, **arguments) on the object at
\* address obj: setattr for every applied attribute, and obj is returned.
update_obj_attrs_values(h, obj, attrs_names, arguments) ==
  LET applied == Applied(attrs_names, arguments)
      old == h[obj]
      new == [a \in DOMAIN old \cup applied |->
                IF a \in applied THEN arguments[a] ELSE old[a]]
  IN  Result([h EXCEPT ![obj] = new], obj)

_generate_title(obj_type, u) ==
  obj_type \o <<"_">> \o random_uuid(u) \o <<"_">> \o random_string(Len(SPECIAL), SPECIAL)

_generate_code(u) == random_uuid(u)

_generate_email(domain, u) == random_uuid(u) \o <<"@">> \o domain

-----------------------------------------------------------------------------
(* The factories' builders.  u is the number of random_uuid() calls made   *)
(* before the call.                                                        *)

\* The caller's keyword arguments: the given ones over the defaults (None).
Overrides(params, given) ==
  [p \in params |-> IF p \in DOMAIN given THEN given[p] ELSE None]

_create_random_person(h, u) ==
  New(h, [Entity(PersonAttrs) EXCEPT
            !.title = PyStr(_generate_title(_obj_person, u)),
            !.type = PyStr(_obj_person),
            !.email = PyStr(_generate_email(DEFAULT_EMAIL_DOMAIN, u + 1)),
            !.authorizations = PyStr(NO_ROLE)])

_create_random_program(h, u) ==
  New(h, [Entity(ProgramAttrs) EXCEPT
            !.title = PyStr(_generate_title(_obj_program, u)),
            !.type = PyStr(_obj_program),
            !.code = PyStr(_generate_code(u + 1)),
            !.manager = PyStr(DEFAULT_USER),
            !.primary_contact = PyStr(DEFAULT_USER),
            !.state = PyStr(DRAFT)])

_create_random_control(h, u) ==
  New(h, [Entity(ControlAttrs) EXCEPT
            !.title = PyStr(_generate_title(_obj_control, u)),
            !.type = PyStr(_obj_control),
            !.code = PyStr(_generate_code(u + 1)),
            !.owner = PyStr(DEFAULT_USER),
            !.primary_contact = PyStr(DEFAULT_USER),
            !.state = PyStr(DRAFT)])

_create_random_audit(h, u) ==
  New(h, [Entity(AuditAttrs) EXCEPT
            !.title = PyStr(_generate_title(_obj_audit, u)),
            !.type = PyStr(_obj_audit),
            !.code = PyStr(_generate_code(u + 1)),
            !.audit_lead = PyStr(DEFAULT_USER),
            !.status = PyStr(PLANNED)])

_create_random_asmt_tmpl(h, u) ==
  New(h, [Entity(AsmtTmplAttrs) EXCEPT
            !.title = PyStr(_generate_title(_obj_asmt_tmpl, u)),
            !.type = PyStr(_obj_asmt_tmpl),
            !.code = PyStr(_generate_code(u + 1)),
            !.asmt_objects = PyStr(CONTROLS),
            !.def_assessors = PyStr(OBJECT_OWNERS),
            !.def_verifiers = PyStr(OBJECT_OWNERS)])

\* _create_random_asmt with the type of another domain.
_create_random_asmt_OtherType(h, u) ==
  New(h, [Entity(AsmtAttrs) EXCEPT
            !.title = PyStr(_generate_title(_obj_asmt, u)),
            !.type = PyStr(_obj_asmt_tmpl),
            !.code = PyStr(_generate_code(u + 1)),
            !.object = PyStr(DEFAULT_USER),
            !.creators = PyStr(DEFAULT_USER),
            !.assignees = PyStr(DEFAULT_USER),
            !.state = PyStr(NOT_STARTED),
            !.is_verified = PyStr(FALSE_STR)])

_create_random_asmt(h, u) ==
  New(h, [Entity(AsmtAttrs) EXCEPT
            !.title = PyStr(_generate_title(_obj_asmt, u)),
            !.type = PyStr(_obj_asmt),
            !.code = PyStr(_generate_code(u + 1)),
            !.object = PyStr(DEFAULT_USER),
            !.creators = PyStr(DEFAULT_USER),
            !.assignees = PyStr(DEFAULT_USER),
            !.state = PyStr(NOT_STARTED),
            !.is_verified = PyStr(FALSE_STR)])

_create_random_issue(h, u) ==
  New(h, [Entity(IssueAttrs) EXCEPT
            !.title = PyStr(_generate_title(_obj_issue, u)),
            !.type = PyStr(_obj_issue),
            !.code = PyStr(_generate_code(u + 1)),
            !.owner = PyStr(DEFAULT_USER),
            !.primary_contact = PyStr(DEFAULT_USER),
            !.state = PyStr(DRAFT)])

\* The body every create() but CAFactory's shares: the caller's overrides
\* applied to the random entity.
ApplyOverrides(random, arguments) ==
  update_obj_attrs_values(random.heap, random.ret, all_objs_attrs_names, arguments)

PersonParams == {"title", "id", "href", "url", "type", "email", "authorizations"}

ProgramParams == {"title", "id", "href", "url", "type", "manager", "primary_contact", "code", "state", "last_update"}

ControlParams == {"title", "id", "href", "url", "type", "owner", "primary_contact", "code", "state", "last_update"}

AuditParams == {"title", "id", "href", "url", "type", "program", "audit_lead", "code", "status", "last_update"}

AsmtTmplParams == {"title", "id", "href", "url", "type", "audit", "asmt_objects", "def_assessors", "def_verifiers", "code", "last_update"}

AsmtParams == {"title", "id", "href", "url", "type", "object", "audit", "creators", "assignees", "primary_contact", "is_verified", "code", "state", "last_update"}

IssueParams == {"title", "id", "href", "url", "type", "audit", "owner", "primary_contact", "code", "state", "last_update"}

PersonsFactory_create(h, u, given) ==
  ApplyOverrides(_create_random_person(h, u), Overrides(PersonParams, given))

ProgramsFactory_create(h, u, given) ==
  ApplyOverrides(_create_random_program(h, u), Overrides(ProgramParams, given))

ControlsFactory_create(h, u, given) ==
  ApplyOverrides(_create_random_control(h, u), Overrides(ControlParams, given))

AuditsFactory_create(h, u, given) ==
  ApplyOverrides(_create_random_audit(h, u), Overrides(AuditParams, given))

AssessmentTemplatesFactory_create(h, u, given) ==
  ApplyOverrides(_create_random_asmt_tmpl(h, u), Overrides(AsmtTmplParams, given))

AssessmentsFactory_create(h, u, given) ==
  ApplyOverrides(_create_random_asmt(h, u), Overrides(AsmtParams, given))

IssuesFactory_create(h, u, given) ==
  ApplyOverrides(_create_random_issue(h, u), Overrides(IssueParams, given))

\* PersonsFactory.default()
PersonsFactory_default(h, u) ==
  PersonsFactory_create(h, u,
    [title |-> PyStr(DEFAULT_USER), id |-> PyInt(1),
     href |-> PyStr(DEFAULT_USER_HREF), email |-> PyStr(DEFAULT_USER_EMAIL),
     authorizations |-> PyStr(SUPERUSER)])

-----------------------------------------------------------------------------
(* What a call gives back: None, one object, a list of objects, or a       *)
(* TypeError raised out of it.                                             *)

RetNone == [k |-> "None", a |-> <<>>]

RetObj(addr) == [k |-> "obj", a |-> <<addr>>]

RetList(addrs) == [k |-> "list", a |-> addrs]

RetRaise == [k |-> "TypeError", a |-> <<>>]

\* copy.copy of the reference: the object itself, no new one.
deepcopy_Alias(h, addr) == Result(h, addr)

\* copy.deepcopy(obj): a new object with the attributes of the one at addr
\* (attribute values are immutable: strings, numbers, None).
deepcopy(h, addr) == New(h, h[addr])

\* total == v for the int the count service answers and an attribute value.
CountEquals(total, v) == v.k \in {"int", "bool"} /\ v.n = total

-----------------------------------------------------------------------------
(* AuditsFactory.clone and AssessmentTemplatesFactory.clone *)

\* AuditsFactory.clone's arguments with the code taken from the source id.
AuditCloneArgs_SourceCode(audit, num) ==
  [title |-> PyStr(audit.title.s \o <<" ", "-", " ", "c", "o", "p", "y", " ">> \o IntStr(num)),
   id    |-> PyInt(audit.id.n + num),
   href  |-> PyStr(ReSubTrailingDigits(IntStr(audit.id.n + num), audit.href.s)),
   url   |-> PyStr(ReSubTrailingDigits(IntStr(audit.id.n + num), audit.url.s)),
   code  |-> PyStr(Upper(_obj_audit) \o <<"-">> \o IntStr(audit.id.n))]

\* The keyword arguments of the num-th update_obj_attrs_values call of
\* AuditsFactory.clone.
AuditCloneArgs(audit, num) ==
  [title |-> PyStr(audit.title.s \o <<" ", "-", " ", "c", "o", "p", "y", " ">> \o IntStr(num)),
   id    |-> PyInt(audit.id.n + num),
   href  |-> PyStr(ReSubTrailingDigits(IntStr(audit.id.n + num), audit.href.s)),
   url   |-> PyStr(ReSubTrailingDigits(IntStr(audit.id.n + num), audit.url.s)),
   code  |-> PyStr(Upper(_obj_audit) \o <<"-">> \o IntStr(audit.id.n + num))]

\* The same of AssessmentTemplatesFactory.clone.
AsmtTmplCloneArgs(asmt_tmpl, num) ==
  [id   |-> PyInt(asmt_tmpl.id.n + num),
   href |-> PyStr(ReSubTrailingDigits(IntStr(asmt_tmpl.id.n + num), asmt_tmpl.href.s)),
   url  |-> PyStr(ReSubTrailingDigits(IntStr(asmt_tmpl.id.n + num), asmt_tmpl.url.s)),
   code |-> PyStr(<<"T", "E", "M", "P", "L", "A", "T", "E", "-">> \o IntStr(asmt_tmpl.id.n + num))]

\* One element of the list comprehension: the copy, then the update of it.
AuditCloneOne(h, audit, num) ==
  LET copy == deepcopy(h, audit) IN
  update_obj_attrs_values(copy.heap, copy.ret, all_objs_attrs_names,
                          AuditCloneArgs(copy.heap[audit], num))

AsmtTmplCloneOne(h, asmt_tmpl, num) ==
  LET copy == deepcopy(h, asmt_tmpl) IN
  update_obj_attrs_values(copy.heap, copy.ret, all_objs_attrs_names,
                          AsmtTmplCloneArgs(copy.heap[asmt_tmpl], num))

\* The list comprehension for num in xrange(num, count_to_clone + 1).
RECURSIVE AuditCloneList(_, _, _, _)
AuditCloneList(h, audit, num, count_to_clone) ==
  IF num > count_to_clone THEN Result(h, <<>>)
  ELSE LET one == AuditCloneOne(h, audit, num)
           rest == AuditCloneList(one.heap, audit, num + 1, count_to_clone)
       IN  Result(rest.heap, <<one.ret>> \o rest.ret)

RECURSIVE AsmtTmplCloneList(_, _, _, _)
AsmtTmplCloneList(h, asmt_tmpl, num, count_to_clone) ==
  IF num > count_to_clone THEN Result(h, <<>>)
  ELSE LET one == AsmtTmplCloneOne(h, asmt_tmpl, num)
           rest == AsmtTmplCloneList(one.heap, asmt_tmpl, num + 1, count_to_clone)
       IN  Result(rest.heap, <<one.ret>> \o rest.ret)

\* A guard that lets every clone through.
CloneGuard_Open(total, obj) == TRUE

\* The guard of both clones: the count service's total equals the id.
CloneGuard(total, obj) == CountEquals(total, obj.id)

\* AuditsFactory.clone(audit, count_to_clone) with the count service
\* answering total.  The first element raises TypeError when title, href or
\* url is no string (str + None, re.sub on None).
AuditsFactory_clone(h, audit, count_to_clone, total) ==
  IF ~CloneGuard(total, h[audit]) THEN Result(h, RetNone)
  ELSE IF count_to_clone >= 1
          /\ ~(IsStr(h[audit].title) /\ IsStr(h[audit].href) /\ IsStr(h[audit].url))
       THEN Result(h, RetRaise)
  ELSE LET list == AuditCloneList(h, audit, 1, count_to_clone)
       IN  Result(list.heap, RetList(list.ret))

\* AssessmentTemplatesFactory.clone(asmt_tmpl, count_to_clone)
AssessmentTemplatesFactory_clone(h, asmt_tmpl, count_to_clone, total) ==
  IF ~CloneGuard(total, h[asmt_tmpl]) THEN Result(h, RetNone)
  ELSE IF count_to_clone >= 1
          /\ ~(IsStr(h[asmt_tmpl].href) /\ IsStr(h[asmt_tmpl].url))
       THEN Result(h, RetRaise)
  ELSE LET list == AsmtTmplCloneList(h, asmt_tmpl, 1, count_to_clone)
       IN  Result(list.heap, RetList(list.ret))

-----------------------------------------------------------------------------
(* AssessmentsFactory.generate *)

\* generate's arguments with enumerate starting at total.
GenerateArgs_FromTotal(obj, audit, asmt_number) ==
  [title |-> PyStr(obj.title.s \o <<" ", "a", "s", "s", "e", "s", "s", "m", "e", "n", "t", " ", "f", "o", "r", " ">> \o audit.title.s),
   code  |-> PyStr(Upper(_obj_asmt) \o <<"-">> \o IntStr(asmt_number - 1)),
   audit |-> audit.title]

\* The keyword arguments of the create call for the i-th object;
\* enumerate(..., start=total + 1) numbers it total + i.
GenerateArgs(obj, audit, asmt_number) ==
  [title |-> PyStr(obj.title.s \o <<" ", "a", "s", "s", "e", "s", "s", "m", "e", "n", "t", " ", "f", "o", "r", " ">> \o audit.title.s),
   code  |-> PyStr(Upper(_obj_asmt) \o <<"-">> \o IntStr(asmt_number)),
   audit |-> audit.title]

\* The list comprehension from the i-th object on.
RECURSIVE GenerateList(_, _, _, _, _, _)
GenerateList(h, u, objs, audit, total, i) ==
  IF i > Len(objs) THEN Result(h, <<>>)
  ELSE LET one == AssessmentsFactory_create(h, u, GenerateArgs(h[objs[i]], h[audit], total + i))
           rest == GenerateList(one.heap, u + 2, objs, audit, total, i + 1)
       IN  Result(rest.heap, <<one.ret>> \o rest.ret)

\* AssessmentsFactory.generate(objs_under_asmt_tmpl, audit) with the count
\* service answering total.  A title that is no string raises TypeError.
AssessmentsFactory_generate(h, u, objs, audit, total) ==
  IF Len(objs) >= 1
     /\ ~(IsStr(h[audit].title) /\ \A i \in 1..Len(objs) : IsStr(h[objs[i]].title))
  THEN Result(h, RetRaise)
  ELSE LET list == GenerateList(h, u, objs, audit, total, 1)
       IN  Result(list.heap, RetList(list.ret))

\* The codes of the entities a call returned.
Codes(h, addrs) == [i \in 1..Len(addrs) |-> h[addrs[i]].code]

-----------------------------------------------------------------------------
(* CAFactory *)

CAParams == {"title", "ca_type", "definition_type", "helptext", "placeholder", "multi_choice_options", "is_mandatory", "ca_global"}

\* The defaults of CAFactory.create's parameters.
CADefaults ==
  [p \in CAParams |->
     CASE p = "helptext"     -> PyStr(<<>>)
       [] p = "is_mandatory" -> PyBool(FALSE)
       [] p = "ca_global"    -> PyBool(TRUE)
       [] OTHER              -> None]

\* _create_random_ca(); ca_type and definition_type are what random.choice
\* drew from ALL_ATTRS_TYPES and ALL_CA_OBJECTS.
_create_random_ca(h, u, ca_type, definition_type) ==
  New(h, [Entity(CAAttrs) EXCEPT
            !.ca_type = PyStr(ca_type),
            !.title = PyStr(_generate_title(ca_type, u)),
            !.definition_type = PyStr(definition_type)])

\* The placeholder set whatever the ca_type.
PlaceholderApplies_AnyType(ca_type, placeholder) == Truthy(placeholder)

\* Whether _fill_ca_entity_fields sets placeholder: the field exists only
\* for Text and Rich Text.
PlaceholderApplies(ca_type, placeholder) ==
  Truthy(placeholder) /\ ca_type \in {PyStr(TEXT), PyStr(RICH_TEXT)}

\* The options of a dropdown always generated, the given list dropped.
MultiChoiceOptions_Generated(ca_type, multi_choice_options, old) ==
  IF ca_type = PyStr(DROPDOWN) THEN PyList(random_list_strings(3)) ELSE old

\* The multi_choice_options _fill_ca_entity_fields leaves on an object of
\* ca_type that had old: mandatory for a dropdown.
MultiChoiceOptions(ca_type, multi_choice_options, old) ==
  IF ca_type = PyStr(DROPDOWN)
  THEN IF Truthy(multi_choice_options) /\ multi_choice_options # None
       THEN multi_choice_options
       ELSE PyList(random_list_strings(3))
  ELSE old

\* The title _fill_ca_entity_fields leaves: a new random one when ca_type is
\* given, then ca_object_fields["definition_type"] when title is given.
FilledTitle(f, u, old) ==
  IF Truthy(f.title) THEN f.definition_type
  ELSE IF Truthy(f.ca_type) THEN PyStr(_generate_title(f.ca_type.s, u))
  ELSE old

\* _fill_ca_entity_fields(ca_object, **ca_object_fields): what its ifs, in
\* their order, leave in each attribute.
_fill_ca_entity_fields(h, u, ca_object, ca_object_fields) ==
  LET f == ca_object_fields
      old == h[ca_object]
      ca_type == IF Truthy(f.ca_type) THEN f.ca_type ELSE old.ca_type
      new == [old EXCEPT
                !.ca_type = ca_type,
                !.title = FilledTitle(f, u, old.title),
                !.definition_type = IF Truthy(f.definition_type) THEN f.definition_type ELSE @,
                !.placeholder = IF PlaceholderApplies(ca_type, f.placeholder) THEN f.placeholder ELSE @,
                !.helptext = IF Truthy(f.helptext) THEN f.helptext ELSE @,
                !.is_mandatory = IF Truthy(f.is_mandatory) THEN f.is_mandatory ELSE @,
                !.ca_global = IF Truthy(f.ca_global) THEN f.ca_global ELSE @,
                !.multi_choice_options = MultiChoiceOptions(ca_type, f.multi_choice_options, @)]
  IN  Result([h EXCEPT ![ca_object] = new], ca_object)

\* _normalize_ca_definition_type(ca_object)
_normalize_ca_definition_type(h, ca_object) ==
  Result([h EXCEPT ![ca_object].definition_type = PyStr(get_normal_form(@.s))],
         ca_object)

\* CAFactory.create(...)
CAFactory_create(h, u, ca_type, definition_type, given) ==
  LET random == _create_random_ca(h, u, ca_type, definition_type)
      filled == _fill_ca_entity_fields(random.heap, u + 1, random.ret,
                  [p \in CAParams |-> IF p \in DOMAIN given THEN given[p] ELSE CADefaults[p]])
  IN  _normalize_ca_definition_type(filled.heap, filled.ret)

-----------------------------------------------------------------------------
(* The state: the entities made so far (heap), the number of random_uuid()  *)
(* calls made (uuids), the calls of clone and generate that returned        *)
(* entities, with the codes they handed out (issued), and the last call     *)
(* with its arguments, the heap before it and its result (last).            *)

NoArgs == [p \in {} |-> None]

Call(op) ==
  [op |-> op, given |-> NoArgs, obj |-> 0, attrs |-> {}, count |-> 0,
   total |-> 0, objs |-> <<>>, choice |-> <<>>, ret |-> RetNone, pre |-> heap]

Init ==
  /\ heap = <<>>
  /\ uuids = 0
  /\ issued = <<>>
  /\ last = [Call("init") EXCEPT !.pre = <<>>]

\* A call that returned no entity (None, an empty list, a TypeError) left
\* heap, uuids and issued as they were: the run goes on from the state
\* before it, which has the same continuations.
Settled == last.op = "init" \/ last.ret.a # <<>>

\* A create() call of a factory: r is its result.
Created(op, given, r, nuuids) ==
  /\ Settled
  /\ Len(heap) < MaxHeap
  /\ heap' = r.heap
  /\ uuids' = uuids + nuuids
  /\ last' = [Call(op) EXCEPT !.given = given, !.ret = RetObj(r.ret)]
  /\ UNCHANGED issued

PersonsCreate(given) ==
  Created("PersonsFactory.create", given, PersonsFactory_create(heap, uuids, given), 2)

PersonsDefault ==
  Created("PersonsFactory.default", NoArgs, PersonsFactory_default(heap, uuids), 2)

ProgramsCreate(given) ==
  Created("ProgramsFactory.create", given, ProgramsFactory_create(heap, uuids, given), 2)

ControlsCreate(given) ==
  Created("ControlsFactory.create", given, ControlsFactory_create(heap, uuids, given), 2)

AuditsCreate(given) ==
  Created("AuditsFactory.create", given, AuditsFactory_create(heap, uuids, given), 2)

AssessmentTemplatesCreate(given) ==
  Created("AssessmentTemplatesFactory.create", given, AssessmentTemplatesFactory_create(heap, uuids, given), 2)

AssessmentsCreate(given) ==
  Created("AssessmentsFactory.create", given, AssessmentsFactory_create(heap, uuids, given), 2)

IssuesCreate(given) ==
  Created("IssuesFactory.create", given, IssuesFactory_create(heap, uuids, given), 2)

CACreate(ca_type, definition_type, given) ==
  /\ Settled
  /\ Len(heap) < MaxHeap
  /\ LET r == CAFactory_create(heap, uuids, ca_type, definition_type, given) IN
       /\ heap' = r.heap
       /\ last' = [Call("CAFactory.create") EXCEPT
                     !.given = given, !.choice = ca_type, !.ret = RetObj(r.ret)]
  /\ uuids' = uuids + (IF "ca_type" \in DOMAIN given /\ Truthy(given.ca_type) THEN 2 ELSE 1)
  /\ UNCHANGED issued

\* A direct call of EntitiesFactory.update_obj_attrs_values on an entity.
UpdateObjAttrsValues(obj, attrs_names, arguments) ==
  /\ Settled
  /\ obj \in 1..Len(heap)
  /\ LET r == update_obj_attrs_values(heap, obj, attrs_names, arguments) IN
       /\ heap' = r.heap
       /\ last' = [Call("update_obj_attrs_values") EXCEPT
                     !.obj = obj, !.attrs = attrs_names, !.given = arguments,
                     !.ret = RetObj(r.ret)]
  /\ UNCHANGED <<uuids, issued>>

\* A call of clone or generate on obj that returned r: when it returned
\* entities, they and their codes go on record.  Like create(), it is
\* called while the heap has room.
Sequenced(op, obj, total, r) ==
  /\ Settled
  /\ Len(heap) < MaxHeap
  /\ Len(r.heap) <= MaxHeap
  /\ heap' = r.heap
  /\ issued' = IF r.ret.k = "list" /\ r.ret.a # <<>>
               THEN Append(issued, [op |-> op, obj |-> obj, total |-> total,
                                    addrs |-> r.ret.a, codes |-> Codes(r.heap, r.ret.a)])
               ELSE issued

AuditsClone(audit, count_to_clone, total) ==
  /\ audit \in 1..Len(heap)
  /\ LET r == AuditsFactory_clone(heap, audit, count_to_clone, total) IN
       /\ Sequenced("AuditsFactory.clone", audit, total, r)
       /\ last' = [Call("AuditsFactory.clone") EXCEPT
                     !.obj = audit, !.count = count_to_clone, !.total = total,
                     !.ret = r.ret]
  /\ UNCHANGED uuids

AssessmentTemplatesClone(asmt_tmpl, count_to_clone, total) ==
  /\ asmt_tmpl \in 1..Len(heap)
  /\ LET r == AssessmentTemplatesFactory_clone(heap, asmt_tmpl, count_to_clone, total) IN
       /\ Sequenced("AssessmentTemplatesFactory.clone", asmt_tmpl, total, r)
       /\ last' = [Call("AssessmentTemplatesFactory.clone") EXCEPT
                     !.obj = asmt_tmpl, !.count = count_to_clone, !.total = total,
                     !.ret = r.ret]
  /\ UNCHANGED uuids

AssessmentsGenerate(objs, audit, total) ==
  /\ audit \in 1..Len(heap)
  /\ LET r == AssessmentsFactory_generate(heap, uuids, objs, audit, total) IN
       /\ Sequenced("AssessmentsFactory.generate", audit, total, r)
       /\ last' = [Call("AssessmentsFactory.generate") EXCEPT
                     !.obj = audit, !.objs = objs, !.total = total, !.ret = r.ret]
       /\ uuids' = uuids + 2 * Len(r.ret.a)

-----------------------------------------------------------------------------
(* A test run (Spec): controls, audits and assessment templates are        *)
(* created, audits and templates are cloned, and assessments are generated *)
(* for controls and audits under an audit, in any order; the count service *)
(* answers each query with any total.                                      *)

Addrs == 1..Len(heap)

Room == MaxHeap - Len(heap)

SeqsUpTo(S, n) == UNION {[1..k -> S] : k \in 0..n}

\* The entities of a domain type.
OfType(obj_type) == {a \in Addrs : heap[a].type = PyStr(obj_type)}

\* Hrefs: one with a digit inside and a run of digits at its end, one that
\* ends in no digit.
HrefDigits == PyStr(<<"1", "/", "0", "1">>)

HrefPlain == PyStr(<<"/", "a">>)

UrlDigits == PyStr(<<"/", "u", "1">>)

\* What the run's create() calls are given: an id with href and url, an id
\* alone (href and url stay None), nothing.
AuditGiven ==
  { [id |-> PyInt(1), href |-> HrefDigits, url |-> UrlDigits],
    [id |-> PyInt(1)] }

AsmtTmplGiven ==
  { [id |-> PyInt(1), href |-> HrefDigits, url |-> UrlDigits],
    [id |-> PyInt(1), href |-> HrefPlain, url |-> UrlDigits],
    NoArgs }

Next ==
  \/ ControlsCreate(NoArgs)
  \/ \E given \in AuditGiven : AuditsCreate(given)
  \/ \E given \in AsmtTmplGiven : AssessmentTemplatesCreate(given)
  \/ \E audit \in OfType(_obj_audit), count \in 0..Room, total \in 0..MaxTotal :
       AuditsClone(audit, count, total)
  \/ \E asmt_tmpl \in OfType(_obj_asmt_tmpl), count \in 0..Room, total \in 0..MaxTotal :
       AssessmentTemplatesClone(asmt_tmpl, count, total)
  \/ \E audit \in OfType(_obj_audit), objs \in SeqsUpTo(OfType(_obj_control) \cup OfType(_obj_audit), Room), total \in 0..MaxTotal :
       AssessmentsGenerate(objs, audit, total)

Spec == Init /\ [][Next]_vars

-----------------------------------------------------------------------------
(* Clones under mutation (SpecMutate): audits and templates are cloned and *)
(* any clone is updated in place; the count service answers with the id   *)
(* of the source or with 0.                                                *)

\* The entities clone calls have returned.
Clones == UNION {{issued[i].addrs[k] : k \in 1..Len(issued[i].addrs)} : i \in 1..Len(issued)}

MutateGiven == { [id |-> PyInt(1), href |-> HrefDigits, url |-> UrlDigits] }

MutateArguments == { [title |-> PyStr(<<"x">>), code |-> None] }

NextMutate ==
  \/ \E given \in MutateGiven : AuditsCreate(given)
  \/ \E given \in MutateGiven : AssessmentTemplatesCreate(given)
  \/ \E audit \in OfType(_obj_audit), count \in 0..Room :
       \E total \in {0, heap[audit].id.n} : AuditsClone(audit, count, total)
  \/ \E asmt_tmpl \in OfType(_obj_asmt_tmpl), count \in 0..Room :
       \E total \in {0, heap[asmt_tmpl].id.n} : AssessmentTemplatesClone(asmt_tmpl, count, total)
  \/ \E obj \in Clones, arguments \in MutateArguments :
       UpdateObjAttrsValues(obj, all_objs_attrs_names, arguments)

SpecMutate == Init /\ [][NextMutate]_vars

-----------------------------------------------------------------------------
(* One entity (SpecCreate): a factory's create() on an empty heap, with    *)
(* any one or two of its parameters given, then one direct update of the   *)
(* entity or one generate over it.                                         *)

Fresh == heap = <<>>

CreateOps ==
  {"PersonsFactory.create", "ProgramsFactory.create", "ControlsFactory.create",
   "AuditsFactory.create", "AssessmentTemplatesFactory.create",
   "AssessmentsFactory.create", "IssuesFactory.create"}

\* Truthy and falsy values a create() parameter is given.
CreateVals == {PyStr(<<"x">>), PyStr(<<>>), PyInt(0)}

\* Nothing given, one parameter given, or title and id given.
Given(params) ==
  {NoArgs}
  \cup {[q \in {p} |-> v] : p \in params, v \in CreateVals}
  \cup {[title |-> PyStr(<<"x">>), id |-> PyInt(7)], [title |-> PyInt(0), id |-> PyInt(7)]}

\* The attrs_names a direct update is called with.
AttrsNames == {all_objs_attrs_names, {"title", "code"}}

\* Truthy and falsy values an update argument has.
UpdateVals == {None, PyStr(<<>>), PyInt(0), PyBool(FALSE), PyStr(<<"y">>)}

\* The arguments of a direct update: up to two of title, id and code.
Arguments ==
  UNION {[K -> UpdateVals] : K \in {K \in SUBSET {"title", "id", "code"} : Cardinality(K) <= 2}}

NextCreate ==
  \/ \E given \in Given(PersonParams) : Fresh /\ PersonsCreate(given)
  \/ Fresh /\ PersonsDefault
  \/ \E given \in Given(ProgramParams) : Fresh /\ ProgramsCreate(given)
  \/ \E given \in Given(ControlParams) : Fresh /\ ControlsCreate(given)
  \/ \E given \in Given(AuditParams) : Fresh /\ AuditsCreate(given)
  \/ \E given \in Given(AsmtTmplParams) : Fresh /\ AssessmentTemplatesCreate(given)
  \/ \E given \in Given(AsmtParams) : Fresh /\ AssessmentsCreate(given)
  \/ \E given \in Given(IssueParams) : Fresh /\ IssuesCreate(given)
  \/ \E obj \in Addrs, attrs_names \in AttrsNames, arguments \in Arguments :
       last.op \in CreateOps /\ UpdateObjAttrsValues(obj, attrs_names, arguments)
  \/ \E audit \in Addrs, objs \in SeqsUpTo(Addrs, Room), total \in 0..MaxTotal :
       last.op \in CreateOps /\ AssessmentsGenerate(objs, audit, total)

SpecCreate == Init /\ [][NextCreate]_vars

-----------------------------------------------------------------------------
(* One custom attribute (SpecCA): CAFactory.create() on an empty heap, for *)
(* every draw of random.choice and every combination of what is given.     *)

\* helptext, is_mandatory and ca_global: all left at their defaults, or all
\* given.
CAGivenRest ==
  { [helptext |-> PyStr(<<>>), is_mandatory |-> PyBool(FALSE), ca_global |-> PyBool(TRUE)],
    [helptext |-> PyStr(<<"h">>), is_mandatory |-> PyBool(TRUE), ca_global |-> PyBool(FALSE)] }

CAGivenCore ==
  [title                : {None, PyStr(<<"T">>)},
   ca_type              : {None, PyStr(TEXT), PyStr(RICH_TEXT), PyStr(DROPDOWN), PyStr(CHECKBOX)},
   definition_type      : {None, PyStr(<<"p", "r", "o", "g", "r", "a", "m", "s">>)},
   placeholder          : {None, PyStr(<<>>), PyStr(<<"p">>)},
   multi_choice_options : {None, PyList(<<>>), PyList(<<"a", "b">>)}]

CAGiven == {core @@ rest : core \in CAGivenCore, rest \in CAGivenRest}

NextCA ==
  \E ca_type \in ALL_ATTRS_TYPES, definition_type \in ALL_CA_OBJECTS, given \in CAGiven :
    Fresh /\ CACreate(ca_type, definition_type, given)

SpecCA == Init /\ [][NextCA]_vars

-----------------------------------------------------------------------------
(* Properties.  They read the last call (last), the heap before it          *)
(* (last.pre), the heap after it (heap) and the record of the clone and     *)
(* generate calls (issued).                                                 *)

\* The addresses the last call returned.
Ret == last.ret.a

\* The entity the last call was made on, as it was before the call.
Src == last.pre[last.obj]

\* Python's falsy values.
Falsy == {None, PyInt(0), PyStr(<<>>), PyBool(FALSE), PyList(<<>>)}

CloneOps == {"AuditsFactory.clone", "AssessmentTemplatesFactory.clone"}

\* The run of decimal digits a string ends with.
RECURSIVE TrailingDigits(_)
TrailingDigits(chars) ==
  IF chars # <<>> /\ IsDigit(chars[Len(chars)])
  THEN TrailingDigits(SubSeq(chars, 1, Len(chars) - 1)) \o <<chars[Len(chars)]>>
  ELSE <<>>

\* The prefix of the sequential code of an operation's domain type.
CodePrefix(op) ==
  CASE op = "AuditsFactory.clone" -> <<"A", "U", "D", "I", "T", "-">>
    [] op = "AssessmentTemplatesFactory.clone" -> <<"T", "E", "M", "P", "L", "A", "T", "E", "-">>
    [] op = "AssessmentsFactory.generate" -> <<"A", "S", "S", "E", "S", "S", "M", "E", "N", "T", "-">>

\* The canonical singular name of the domain type of a factory's create():
\* what objects.get_singular gives for it.
Singular(op) ==
  CASE op = "PersonsFactory.create" -> _obj_person
    [] op = "ProgramsFactory.create" -> _obj_program
    [] op = "ControlsFactory.create" -> _obj_control
    [] op = "AuditsFactory.create" -> _obj_audit
    [] op = "AssessmentTemplatesFactory.create" -> _obj_asmt_tmpl
    [] op = "AssessmentsFactory.create" -> _obj_asmt
    [] op = "IssuesFactory.create" -> _obj_issue

\* C1: update_obj_attrs_values writes every override whose key is in
\* attrs_names and whose value is truthy verbatim onto the entity, leaves
\* every other attribute of the entity as it was before the call, and
\* returns the instance it was passed.
C1_UpdateFrame ==
  last.op = "update_obj_attrs_values" =>
    LET old == last.pre[last.obj]
        new == heap[last.obj]
        written == {a \in DOMAIN last.given : a \in last.attrs /\ last.given[a] \notin Falsy}
    IN  /\ last.ret = RetObj(last.obj)
        /\ Len(heap) = Len(last.pre)
        /\ \A a \in written : a \in DOMAIN new /\ new[a] = last.given[a]
        /\ \A a \in DOMAIN old \ written : a \in DOMAIN new /\ new[a] = old[a]
        /\ DOMAIN new \subseteq DOMAIN old \cup written

\* An update that wrote a truthy title over another one and kept the id
\* against a falsy override.
C1_Witness ==
  /\ last.op = "update_obj_attrs_values"
  /\ last.attrs = all_objs_attrs_names
  /\ last.given = [title |-> PyStr(<<"y">>), id |-> PyInt(0)]
  /\ last.pre[last.obj].title # PyStr(<<"y">>)
  /\ heap[last.obj].title = PyStr(<<"y">>)
  /\ last.pre[last.obj].id = PyStr(<<"x">>)
  /\ heap[last.obj].id = PyStr(<<"x">>)

\* A clone call on a source whose id is the total, for one entity or more.
C2_Called ==
  /\ last.op \in CloneOps
  /\ last.count >= 1
  /\ Src.id = PyInt(last.total)

\* What C2 promises of the call: count entities, the k-th with id N + k,
\* href and url ending in the digits of N + k, and the code of N + k.
C2_Returned ==
  /\ last.ret.k = "list"
  /\ Len(Ret) = last.count
  /\ \A k \in 1..Len(Ret) :
       LET e == heap[Ret[k]]
           id == IntStr(last.total + k)
       IN  /\ e.id = PyInt(last.total + k)
           /\ IsStr(e.href) /\ TrailingDigits(e.href.s) = id
           /\ IsStr(e.url) /\ TrailingDigits(e.url.s) = id
           /\ e.code = PyStr(CodePrefix(last.op) \o id)

\* The source's href and url are strings that end in a decimal digit (and
\* an audit's title is a string).
C2_Linked ==
  /\ IsStr(Src.href) /\ TrailingDigits(Src.href.s) # <<>>
  /\ IsStr(Src.url) /\ TrailingDigits(Src.url.s) # <<>>
  /\ last.op = "AuditsFactory.clone" => IsStr(Src.title)

\* C2 as stated: every clone call with id = total = N and count_to_clone
\* c >= 1 returns c entities, the k-th with id N + k, href and url whose
\* trailing digits are N + k, and code "AUDIT-{N+k}" or "TEMPLATE-{N+k}".
C2_Original == C2_Called => C2_Returned

\* C2, amended: the same for a source whose href and url are strings ending
\* in a decimal digit.
C2_Amended == C2_Called /\ C2_Linked => C2_Returned

\* An audit with href "1/01" cloned twice in one call.
C2_Witness ==
  /\ last.op = "AuditsFactory.clone"
  /\ C2_Called /\ C2_Linked
  /\ Src.href = HrefDigits
  /\ last.count = 2
  /\ Len(Ret) = 2

\* C3: a clone call on a source whose id differs from the total returns
\* nothing, whatever count_to_clone is: no list, no error, and the heap with
\* the source on it is as before.
C3_SilentReject ==
  last.op \in CloneOps /\ Src.id # PyInt(last.total) =>
    last.ret = RetNone /\ heap = last.pre

\* An audit with id 1 whose clone was asked for twice while the total was 2.
C3_Witness ==
  /\ last.op = "AuditsFactory.clone"
  /\ Src.id = PyInt(1)
  /\ last.total = 2
  /\ last.count = 2
  /\ last.ret = RetNone

\* C4: generate returns one assessment per object, in the order of the
\* objects, the i-th titled "{object_i.title} assessment for {audit.title}",
\* coded "ASSESSMENT-{T+i}" and with audit = audit.title.
C4_Generated ==
  last.op = "AssessmentsFactory.generate" =>
    /\ last.ret.k = "list"
    /\ Len(Ret) = Len(last.objs)
    /\ \A i \in 1..Len(last.objs) :
         LET e == heap[Ret[i]]
             object == last.pre[last.objs[i]]
         IN  /\ e.title = PyStr(object.title.s \o <<" ", "a", "s", "s", "e", "s", "s", "m", "e", "n", "t", " ", "f", "o", "r", " ">> \o Src.title.s)
             /\ e.code = PyStr(CodePrefix(last.op) \o IntStr(last.total + i))
             /\ e.audit = Src.title

\* Assessments generated for two objects of different titles while the
\* total was 2.
C4_Witness ==
  /\ last.op = "AssessmentsFactory.generate"
  /\ Len(last.objs) = 2
  /\ Len(Ret) = 2
  /\ last.pre[last.objs[1]].title # last.pre[last.objs[2]].title
  /\ last.total = 2

\* C5 for CAFactory.create: a title supplied with a non-falsy value is the
\* title of the returned custom attribute.
C5_SuppliedTitle ==
  last.op = "CAFactory.create" /\ last.given.title \notin Falsy =>
    heap[Ret[1]].title = last.given.title

\* C6 as stated: no two entities that calls of one operation returned, in
\* one call or in two, carry the same code.
C6_Original ==
  \A i, j \in 1..Len(issued) :
    issued[i].op = issued[j].op =>
      \A a \in 1..Len(issued[i].codes), b \in 1..Len(issued[j].codes) :
        <<i, a>> # <<j, b>> => issued[i].codes[a] # issued[j].codes[b]

\* C6, amended: the codes one call hands out are pairwise different, and two
\* calls of one operation hand out different codes when the total the later
\* one got is at least the total of the earlier one plus the number of
\* entities the earlier one returned.
C6_Amended ==
  /\ \A i \in 1..Len(issued) :
       \A a, b \in 1..Len(issued[i].codes) :
         a # b => issued[i].codes[a] # issued[i].codes[b]
  /\ \A i, j \in 1..Len(issued) :
       /\ i < j
       /\ issued[i].op = issued[j].op
       /\ issued[j].total >= issued[i].total + Len(issued[i].codes)
       => \A a \in 1..Len(issued[i].codes), b \in 1..Len(issued[j].codes) :
            issued[i].codes[a] # issued[j].codes[b]

\* Two generate calls, the second after the total moved on by what the
\* first returned, the first having returned two assessments.
C6_Witness ==
  /\ Len(issued) = 2
  /\ issued[1].op = "AssessmentsFactory.generate"
  /\ issued[2].op = "AssessmentsFactory.generate"
  /\ Len(issued[1].codes) = 2
  /\ issued[2].total = issued[1].total + 2

\* The ca_type of the entity: the override if given, else the random one.
CaType == IF last.given.ca_type # None THEN last.given.ca_type ELSE PyStr(last.choice)

FreeText == {PyStr(<<"T", "e", "x", "t">>), PyStr(<<"R", "i", "c", "h", " ", "T", "e", "x", "t">>)}

Dropdown == PyStr(<<"D", "r", "o", "p", "d", "o", "w", "n">>)

\* C7 as stated: whatever the placeholder override, it is the placeholder of
\* the returned entity when the ca_type is Text or Rich Text, and the
\* placeholder is unset for every other ca_type.
C7_Original ==
  last.op = "CAFactory.create" =>
    heap[Ret[1]].placeholder = (IF CaType \in FreeText THEN last.given.placeholder ELSE None)

\* C7, amended: a truthy placeholder override is the placeholder of the
\* returned entity when the ca_type is Text or Rich Text; the placeholder is
\* unset for a falsy override and for every other ca_type.
C7_Amended ==
  last.op = "CAFactory.create" =>
    heap[Ret[1]].placeholder =
      (IF CaType \in FreeText /\ last.given.placeholder \notin Falsy
       THEN last.given.placeholder ELSE None)

\* A placeholder given with no ca_type, the random ca_type being Rich Text.
C7_Witness ==
  /\ last.op = "CAFactory.create"
  /\ last.given.ca_type = None
  /\ last.choice = <<"R", "i", "c", "h", " ", "T", "e", "x", "t">>
  /\ last.given.placeholder = PyStr(<<"p">>)
  /\ heap[Ret[1]].placeholder = PyStr(<<"p">>)

C9_Type ==
  /\ last.op \in CreateOps /\ last.given = NoArgs =>
       heap[Ret[1]].type = PyStr(Singular(last.op))
  /\ last.op = "AssessmentsFactory.generate" =>
       \A i \in 1..Len(Ret) : heap[Ret[i]].type = PyStr(Singular("AssessmentsFactory.create"))

\* Two assessments generated over an issue made by create() with no
\* overrides.
C9_Witness ==
  /\ last.op = "AssessmentsFactory.generate"
  /\ Len(Ret) = 2
  /\ last.pre = <<heap[1]>>
  /\ heap[1].type = PyStr(Singular("IssuesFactory.create"))

\* The attributes a clone may differ in from its source.
CloneRewrites(op) ==
  IF op = "AuditsFactory.clone" THEN {"id", "href", "url", "code", "title"}
  ELSE {"id", "href", "url", "code"}

\* The last call was a clone that returned entities.
C10_Cloned == last.op \in CloneOps /\ last.ret.k = "list" /\ Ret # <<>>

\* The last call updated a clone of the family e (a source with the clones
\* one call made of it).
C10_Mutated(e) ==
  /\ last.op = "update_obj_attrs_values"
  /\ e.op \in CloneOps
  /\ \E k \in 1..Len(e.addrs) : e.addrs[k] = last.obj

\* C10: a successful clone leaves every field of the source as it was and
\* returns new instances, different from each other, that differ from the
\* source in id, href, url and code only (and an audit's in title, which is
\* the source's with " - copy {k}" after it); and an update of one clone
\* changes neither the source nor another clone.
C10_Independent ==
  /\ C10_Cloned =>
       /\ \A a \in 1..Len(last.pre) : heap[a] = last.pre[a]
       /\ \A k \in 1..Len(Ret) : Ret[k] > Len(last.pre) /\ Ret[k] <= Len(heap)
       /\ \A k, m \in 1..Len(Ret) : k # m => Ret[k] # Ret[m]
       /\ \A k \in 1..Len(Ret) :
            LET e == heap[Ret[k]] IN
            /\ DOMAIN e = DOMAIN Src
            /\ \A a \in DOMAIN Src \ CloneRewrites(last.op) : e[a] = Src[a]
            /\ e.title = IF last.op = "AuditsFactory.clone"
                         THEN PyStr(Src.title.s \o <<" ", "-", " ", "c", "o", "p", "y", " ">> \o IntStr(k))
                         ELSE Src.title
  /\ \A i \in 1..Len(issued) :
       C10_Mutated(issued[i]) =>
         /\ heap[issued[i].obj] = last.pre[issued[i].obj]
         /\ \A k \in 1..Len(issued[i].addrs) :
              issued[i].addrs[k] # last.obj =>
                heap[issued[i].addrs[k]] = last.pre[issued[i].addrs[k]]

\* One of the two clones a call made of an audit got another title by an
\* update.
C10_Witness ==
  /\ last.op = "update_obj_attrs_values"
  /\ heap[last.obj] # last.pre[last.obj]
  /\ \E i \in 1..Len(issued) :
       /\ C10_Mutated(issued[i])
       /\ issued[i].op = "AuditsFactory.clone"
       /\ Len(issued[i].addrs) = 2

=============================================================================
